---- MODULE Spec2Model ----
(***************************************************************************)
(* Model of crunch's atlas packer (src/crunch/packer.cpp): Packer::Pack,   *)
(* the four encoders (SavePng, SaveXml, SaveJson, SaveBin), alignStream    *)
(* and the permutation helpers.  Indices stored in the state (dupID,       *)
(* dupLookup) are 0-based as in the code; At(s, i) reads s[i] of the code. *)
(***************************************************************************)
EXTENDS Integers, Sequences, FiniteSets, TLC

\* ------------------------------------------------------------------ bounds
MaxItems == 3

\* ------------------------------------------------------------ input domains
\* Names are byte strings: "a" = <<97>>, "ab" = <<97, 98>>, ...
Universe ==
  { [name |-> <<98>>,     width |-> 2, height |-> 1, pix |-> 1, hashValue |-> 7,
     frameX |-> 0,  frameY |-> 0,  frameW |-> 2, frameH |-> 1],
    [name |-> <<97>>,     width |-> 2, height |-> 1, pix |-> 1, hashValue |-> 7,
     frameX |-> -1, frameY |-> 0,  frameW |-> 3, frameH |-> 1],
    [name |-> <<97, 98>>, width |-> 2, height |-> 1, pix |-> 2, hashValue |-> 7,
     frameX |-> 0,  frameY |-> -2, frameW |-> 2, frameH |-> 3],
    [name |-> <<99>>,     width |-> 1, height |-> 1, pix |-> 3, hashValue |-> 9,
     frameX |-> 0,  frameY |-> 0,  frameW |-> 1, frameH |-> 1],
    [name |-> <<98, 97>>, width |-> 2, height |-> 1, pix |-> 1, hashValue |-> 7,
     frameX |-> 0,  frameY |-> 0,  frameW |-> 300, frameH |-> 1] }

CanvasWidths  == {1, 3, 4}
CanvasHeights == {1, 2, 5}
Pads          == {0, 1}

\* All lists of distinct bitmaps of length n.
RECURSIVE ListsOf(_, _)
ListsOf(S, n) ==
  IF n = 0 THEN { <<>> }
  ELSE UNION { { Append(l, b) : b \in S \ { l[i] : i \in 1..Len(l) } } : l \in ListsOf(S, n - 1) }

InputLists == UNION { ListsOf(Universe, n) : n \in 0..MaxItems }

\* ------------------------------------------------------------------ helpers
At(s, i) == s[i + 1]

Max(a, b) == IF a > b THEN a ELSE b

RECURSIVE Reverse(_)
Reverse(s) == IF s = <<>> THEN <<>> ELSE Append(Reverse(Tail(s)), Head(s))

Back(s) == s[Len(s)]

PopBack(s) == SubSeq(s, 1, Len(s) - 1)

\* Bitmap::Equals: same dimensions and same pixel data.
Equals(a, b) == a.width = b.width /\ a.height = b.height /\ a.pix = b.pix

\* --------------------------------------------------------------- the state
VARIABLES
  pc,          \* position in Pack: "loop", "shrinkW", "shrinkH", "done"
  iter,        \* iterations the current halving loop has run, modulo 2
  input,       \* the caller's vector<Bitmap*> handed to Pack
  input0,      \* the caller's vector as it was when Pack was called
  bitmaps,     \* Packer::bitmaps
  points,      \* Packer::points
  dupLookup,   \* Packer::dupLookup, hashValue -> index
  width,       \* Packer::width
  height,      \* Packer::height
  initWidth,   \* the width given to the constructor
  initHeight,  \* the height given to the constructor
  pad,         \* Packer::pad
  unique,      \* Pack's argument
  rotate,      \* Pack's argument
  ww,          \* Pack's local ww
  hh,          \* Pack's local hh
  used,        \* the rectangles the MaxRectsBinPack has handed out
  inserts,     \* number of packer.Insert calls made so far
  rect,        \* Pack's local rect: the last answer of packer.Insert
  opts,        \* the arguments the caller gives the encoders
  out          \* what the last encoder call wrote

packVars == <<input, input0, bitmaps, points, dupLookup, width, height,
              initWidth, initHeight, pad, unique, rotate, ww, hh, used,
              inserts, rect, opts>>

vars == <<pc, iter, input, input0, bitmaps, points, dupLookup, width, height,
          initWidth, initHeight, pad, unique, rotate, ww, hh, used,
          inserts, rect, opts, out>>

\* The encoders' arguments: atlas name, trim, rotate, version, alignment, and
\* the number of bytes already in the stream SaveBin is given.  The alignment
\* is not read when version = -1.
AtlasNames     == { <<116>> }
Alignments     == { 11, 32 }
StartPositions == { 0, 5 }

EncoderOptions ==
  { [name |-> n, trim |-> t, rotate |-> r, version |-> v[1], alignment |-> v[2],
     start |-> s] :
      n \in AtlasNames, t \in BOOLEAN, r \in BOOLEAN,
      v \in ({ <<-1, 16>> } \cup ({ 0 } \X Alignments)), s \in StartPositions }

DefaultOptions ==
  [name |-> <<116>>, trim |-> FALSE, rotate |-> FALSE, version |-> -1,
   alignment |-> 16, start |-> 0]

NoRect == [x |-> -1, y |-> -1, width |-> -1, height |-> -1]

NoOutput == [kind |-> "none"]

\* Packer::Packer followed by the entry of Pack (ww = hh = 0, a fresh bin),
\* for canvases of the given widths and heights and the given paddings.
InitWith(widths, heights, pads, flags, options) ==
  /\ pc = "loop"
  /\ iter = 0
  /\ input \in InputLists
  /\ input0 = input
  /\ bitmaps = <<>>
  /\ points = <<>>
  /\ dupLookup = <<>>
  /\ width \in widths
  /\ height \in heights
  /\ initWidth = width
  /\ initHeight = height
  /\ pad \in pads
  /\ unique \in flags
  /\ rotate \in flags
  /\ ww = 0
  /\ hh = 0
  /\ used = <<>>
  /\ inserts = 0
  /\ rect = NoRect
  /\ opts \in options
  /\ out = NoOutput

\* Packing on every canvas of the model.
PackInit == InitWith(CanvasWidths, CanvasHeights, Pads, BOOLEAN, { DefaultOptions })

\* Packing followed by the encoders, on one canvas, with duplicate detection
\* and rotation allowed (the bin may still place a bitmap unrotated).
Init == InitWith({ 3 }, { 2 }, { 0 }, { TRUE }, EncoderOptions)

\* ------------------------------------------------------------ RectangleBin
Disjoint(r, s) ==
  \/ r.x + r.width <= s.x
  \/ s.x + s.width <= r.x
  \/ r.y + r.height <= s.y
  \/ s.y + s.height <= r.y

ZeroRect == [x |-> 0, y |-> 0, width |-> 0, height |-> 0]

\* Where MaxRectsBinPack can put a rectangle: the corner of a free rectangle,
\* which is the bin's origin or lies on the right or bottom edge of a
\* rectangle handed out before.
Corners(placed, horizontal) ==
  { 0 } \cup { IF horizontal THEN placed[i].x + placed[i].width
                            ELSE placed[i].y + placed[i].height : i \in 1..Len(placed) }

\* MaxRectsBinPack::Insert: a free place for w x h (or h x w when rotation is
\* allowed) inside the bin, or the zero-size rectangle.
Insert(binW, binH, placed, w, h, allowRot) ==
  { ZeroRect } \cup
  { [x |-> c[1], y |-> c[2], width |-> c[3][1], height |-> c[3][2]] :
      c \in { c \in Corners(placed, TRUE) \X Corners(placed, FALSE) \X
                      ({ <<w, h>> } \cup (IF allowRot THEN { <<h, w>> } ELSE {})) :
                /\ c[1] + c[3][1] <= binW
                /\ c[2] + c[3][2] <= binH
                /\ \A i \in 1..Len(placed) :
                     Disjoint([x |-> c[1], y |-> c[2],
                               width |-> c[3][1], height |-> c[3][2]], placed[i]) } }

\* ---------------------------------------------------------------- Pack loop
\* A variant of IsDuplicate that trusts the hash alone.
IsDuplicateByHash(bitmap) == bitmap.hashValue \in DOMAIN dupLookup

\* Lines 59-60: the hash is registered and the registered bitmap is pixel-equal.
IsDuplicate(bitmap) ==
  /\ bitmap.hashValue \in DOMAIN dupLookup
  /\ Equals(bitmap, At(bitmaps, dupLookup[bitmap.hashValue]))

\* A variant of Exhausted that only takes a negative size for "no room".
ExhaustedIfNegative(r) == r.width < 0 \/ r.height < 0

\* Line 75: the bin's answer means "no room".
Exhausted(r) == r.width = 0 \/ r.height = 0

\* Line 79: dupLookup[bitmap->hashValue] = points.size()
Register(lookup, h, idx) ==
  [k \in (DOMAIN lookup) \cup { h } |-> IF k = h THEN idx ELSE lookup[k]]

\* Line 86: the rotation flag of a placed bitmap.
Rotated(rot, bitmap, r, p) == rot /\ bitmap.width # (r.width - p)

\* A variant of TightBound that leaves out the rectangle's origin.
TightBoundOfExtent(pos, extent, bound) == Max(extent, bound)

\* Lines 92-93: the running tight bound.
TightBound(pos, extent, bound) == Max(pos + extent, bound)

\* A variant of ShrinkTest with a strict comparison.
ShrinkTestStrict(size, bound) == size \div 2 > bound

\* Lines 97, 99: the test of the halving loops.
ShrinkTest(size, bound) == size \div 2 >= bound

\* Lines 57-68: the bitmap at the back of the input is a duplicate.
PackDuplicate ==
  /\ pc = "loop"
  /\ input # <<>>
  /\ unique
  /\ IsDuplicate(Back(input))
  /\ LET bitmap == Back(input)
         di     == dupLookup[bitmap.hashValue]
         p      == [At(points, di) EXCEPT !.dupID = di]
     IN /\ points' = Append(points, p)
        /\ bitmaps' = Append(bitmaps, bitmap)
        /\ input' = PopBack(input)
  /\ UNCHANGED <<pc, iter, input0, dupLookup, width, height, initWidth, initHeight,
                 pad, unique, rotate, ww, hh, used, inserts, rect, opts, out>>

\* Lines 72-94: the bin places the bitmap at the back of the input.
PackPlace ==
  /\ pc = "loop"
  /\ input # <<>>
  /\ ~(unique /\ IsDuplicate(Back(input)))
  /\ LET bitmap == Back(input)
     IN \E r \in Insert(initWidth, initHeight, used,
                        bitmap.width + pad, bitmap.height + pad, rotate) :
          /\ ~Exhausted(r)
          /\ rect' = r
          /\ used' = Append(used, r)
          /\ inserts' = inserts + 1
          /\ dupLookup' = IF unique
                            THEN Register(dupLookup, bitmap.hashValue, Len(points))
                            ELSE dupLookup
          /\ points' = Append(points, [x |-> r.x, y |-> r.y, dupID |-> -1,
                                        rot |-> Rotated(rotate, bitmap, r, pad)])
          /\ bitmaps' = Append(bitmaps, bitmap)
          /\ input' = PopBack(input)
          /\ ww' = TightBound(r.x, r.width, ww)
          /\ hh' = TightBound(r.y, r.height, hh)
  /\ UNCHANGED <<pc, iter, input0, width, height, initWidth, initHeight, pad,
                 unique, rotate, opts, out>>

\* Lines 73-76: the bin answers with the zero-size rectangle; break.
PackExhausted ==
  /\ pc = "loop"
  /\ input # <<>>
  /\ ~(unique /\ IsDuplicate(Back(input)))
  /\ LET bitmap == Back(input)
     IN \E r \in Insert(initWidth, initHeight, used,
                        bitmap.width + pad, bitmap.height + pad, rotate) :
          /\ Exhausted(r)
          /\ rect' = r
          /\ inserts' = inserts + 1
  /\ pc' = "shrinkW"
  /\ UNCHANGED <<iter, input, input0, bitmaps, points, dupLookup, width, height,
                 initWidth, initHeight, pad, unique, rotate, ww, hh, used,
                 opts, out>>

\* Line 49: the input is empty, the loop ends.
PackInputEmpty ==
  /\ pc = "loop"
  /\ input = <<>>
  /\ pc' = "shrinkW"
  /\ UNCHANGED <<iter, packVars, out>>

\* Lines 97-98: one iteration of the width loop.
ShrinkWidth ==
  /\ pc = "shrinkW"
  /\ ShrinkTest(width, ww)
  /\ width' = width \div 2
  /\ iter' = 1 - iter
  /\ UNCHANGED <<pc, input, input0, bitmaps, points, dupLookup, height,
                 initWidth, initHeight, pad, unique, rotate, ww, hh, used,
                 inserts, rect, opts, out>>

\* Line 97: the width loop's test fails.
ShrinkWidthEnd ==
  /\ pc = "shrinkW"
  /\ ~ShrinkTest(width, ww)
  /\ pc' = "shrinkH"
  /\ iter' = 0
  /\ UNCHANGED <<packVars, out>>

\* Lines 99-100: one iteration of the height loop.
ShrinkHeight ==
  /\ pc = "shrinkH"
  /\ ShrinkTest(height, hh)
  /\ height' = height \div 2
  /\ iter' = 1 - iter
  /\ UNCHANGED <<pc, input, input0, bitmaps, points, dupLookup, width,
                 initWidth, initHeight, pad, unique, rotate, ww, hh, used,
                 inserts, rect, opts, out>>

\* Line 99: the height loop's test fails; Pack returns.
ShrinkHeightEnd ==
  /\ pc = "shrinkH"
  /\ ~ShrinkTest(height, hh)
  /\ pc' = "done"
  /\ iter' = 0
  /\ UNCHANGED <<packVars, out>>

\* --------------------------------------------------------------- binary.hpp
\* static_cast<int16_t>(v)
Int16(v) == ((v + 32768) % 65536) - 32768

\* WriteByte: one byte.
WriteByte(bin, v) == Append(bin, v % 256)

\* WriteShort: the two bytes of a 16-bit two's complement value, low byte first.
WriteShort(bin, v) == bin \o << (v % 65536) % 256, (v % 65536) \div 256 >>

\* WriteString: the characters followed by a terminating 0.
WriteString(bin, str) == Append(bin \o str, 0)

\* WriteLengthPrefixedString: a 2-byte length, then the characters.
WriteLengthPrefixedString(bin, str) == WriteShort(bin, Int16(Len(str))) \o str

\* WriteStringVersion: the string format the version selects.
WriteStringVersion(bin, str, version) ==
  IF version = -1 THEN WriteString(bin, str) ELSE WriteLengthPrefixedString(bin, str)

\* -------------------------------------------------------------- alignStream
Zeros(n) == [k \in 1..n |-> 0]

\* Lines 228-229: the number of padding bytes for a stream at `position`.
Remaining(position, alignment) == alignment - (position % alignment)

\* Lines 222-234.
alignStream(bin, alignment) ==
  LET position  == Len(bin)
      remaining == Remaining(position, alignment)
  IN IF position >= 0 /\ remaining > 0 THEN bin \o Zeros(remaining) ELSE bin

\* --------------------------------------------- sort_permutation and friends
\* string::compare(a, b) < 0: lexicographic order of the bytes.
NameLess(a, b) ==
  \E k \in 1..(Len(b)) :
    /\ \A m \in 1..(k - 1) : m <= Len(a) /\ a[m] = b[m]
    /\ \/ k = Len(a) + 1
       \/ k <= Len(a) /\ a[k] < b[k]

\* Line 147: the comparator SaveBin sorts with.
Compare(a, b) == NameLess(a.name, b.name)

\* All orders of the indices 0..n-1, as sequences.
RECURSIVE Orders(_)
Orders(S) ==
  IF S = {} THEN { <<>> }
  ELSE UNION { { <<i>> \o o : o \in Orders(S \ { i }) } : i \in S }

\* The orders of 0..n-1 for every length a vector of the model can have.
OrdersOfLength == [n \in 0..MaxItems |-> Orders(0..(n - 1))]

\* Lines 238-247: the index vectors std::sort can return for vec, i.e. the
\* orders in which no element comes after one that compares greater.
sort_permutation(vec) ==
  { p \in OrdersOfLength[Len(vec)] :
      \A i \in 0..(Len(vec) - 1) : \A j \in (i + 1)..(Len(vec) - 1) :
        ~Compare(At(vec, At(p, j)), At(vec, At(p, i))) }

\* std::swap(vec[a], vec[b])
Swap(vec, a, b) == [vec EXCEPT ![a + 1] = vec[b + 1], ![b + 1] = vec[a + 1]]

\* A variant of FollowCycle that always swaps with the cycle's first slot.
RECURSIVE FollowCycleFromStart(_, _, _, _, _, _)
FollowCycleFromStart(vec, done, p, i, prev_j, j) ==
  IF i = j THEN <<vec, done>>
  ELSE FollowCycleFromStart(Swap(vec, i, j), done \cup { j }, p, i, j, At(p, j))

\* Lines 264-270: the inner while loop; the state is <<vec, done>>.
RECURSIVE FollowCycle(_, _, _, _, _, _)
FollowCycle(vec, done, p, i, prev_j, j) ==
  IF i = j THEN <<vec, done>>
  ELSE FollowCycle(Swap(vec, prev_j, j), done \cup { j }, p, i, j, At(p, j))

\* Lines 255-271: the outer for loop from index i on.
RECURSIVE PermuteFrom(_, _, _, _)
PermuteFrom(vec, done, p, i) ==
  IF i >= Len(vec) THEN vec
  ELSE IF i \in done THEN PermuteFrom(vec, done, p, i + 1)
  ELSE LET r == FollowCycle(vec, done \cup { i }, p, i, i, At(p, i))
       IN PermuteFrom(r[1], r[2], p, i + 1)

\* Lines 250-272.
apply_permutation_in_place(vec, p) == PermuteFrom(vec, {}, p, 0)

\* ------------------------------------------------------------------ SaveBin
\* Line 161: the bytes a record needs, compared with the alignment.
Footprint(bitmap, trim, rot) ==
  2 + Len(bitmap.name) + 8 + (IF trim THEN 8 ELSE 0) + (IF rot THEN 1 ELSE 0)

\* Line 161: the record is left out.
Skipped(bitmap, trim, rot, version, alignment) ==
  version >= 0 /\ Footprint(bitmap, trim, rot) > alignment

\* Lines 174-180: the optional trim fields.
WriteTrim(bin, bitmap, trim) ==
  IF trim
    THEN WriteShort(WriteShort(WriteShort(WriteShort(bin,
           Int16(bitmap.frameX)), Int16(bitmap.frameY)),
           Int16(bitmap.frameW)), Int16(bitmap.frameH))
    ELSE bin

\* Lines 159-190: one iteration of the record loop.
WriteItem(bin, bitmap, point, trim, rot, version, alignment) ==
  IF Skipped(bitmap, trim, rot, version, alignment) THEN bin
  ELSE
    LET b0 == IF version = -1 THEN WriteString(bin, bitmap.name) ELSE bin
        b1 == WriteShort(WriteShort(WriteShort(WriteShort(b0,
                Int16(point.x)), Int16(point.y)),
                Int16(bitmap.width)), Int16(bitmap.height))
        b2 == WriteTrim(b1, bitmap, trim)
        b3 == IF rot THEN WriteByte(b2, IF point.rot THEN 1 ELSE 0) ELSE b2
    IN IF version >= 0
         THEN alignStream(WriteLengthPrefixedString(b3, bitmap.name), alignment)
         ELSE b3

\* Lines 158-190: the record loop over the items i..n-1 (0-based).
RECURSIVE WriteItems(_, _, _, _, _, _, _, _)
WriteItems(bin, bs, ps, i, trim, rot, version, alignment) ==
  IF i >= Len(bs) THEN bin
  ELSE WriteItems(WriteItem(bin, At(bs, i), At(ps, i), trim, rot, version, alignment),
                  bs, ps, i + 1, trim, rot, version, alignment)

\* Lines 152-156: the header.
WriteHeader(bin, name, count, version, alignment) ==
  LET h == WriteShort(WriteStringVersion(bin, name, version), Int16(count))
  IN IF version >= 0 THEN alignStream(h, alignment) ELSE h

\* Lines 143-191, as an operator: the sorted vectors and the stream.
SaveBinResult(bs0, ps0, p, bin, name, trim, rot, version, alignment) ==
  LET bs == apply_permutation_in_place(bs0, p)
      ps == apply_permutation_in_place(ps0, p)
  IN [bitmaps |-> bs, points |-> ps,
      bin |-> WriteItems(WriteHeader(bin, name, Len(bs), version, alignment),
                         bs, ps, 0, trim, rot, version, alignment)]

\* Lines 143-191.  The caller's stream already holds opts.start bytes.
SaveBin ==
  /\ pc = "done"
  /\ \E p \in sort_permutation(bitmaps) :
       LET r == SaveBinResult(bitmaps, points, p, Zeros(opts.start), opts.name,
                              opts.trim, opts.rotate, opts.version, opts.alignment)
       IN /\ bitmaps' = r.bitmaps
          /\ points' = r.points
          /\ out' = [kind |-> "bin", perm |-> p, before |-> <<bitmaps, points>>,
                     bytes |-> r.bin]
  /\ UNCHANGED <<pc, iter, input, input0, dupLookup, width, height, initWidth,
                 initHeight, pad, unique, rotate, ww, hh, used, inserts, rect,
                 opts>>

\* ------------------------------------------------------- the other encoders
\* Lines 106-115: the bitmaps SavePng copies, in order.
PngBlits ==
  LET Sel(i) == At(points, i).dupID < 0
      RECURSIVE From(_)
      From(i) == IF i >= Len(bitmaps) THEN <<>>
                 ELSE (IF Sel(i)
                         THEN << [pix |-> At(bitmaps, i).pix, x |-> At(points, i).x,
                                  y |-> At(points, i).y, rot |-> At(points, i).rot] >>
                         ELSE <<>>) \o From(i + 1)
  IN From(0)

\* Lines 103-117.
SavePng ==
  /\ pc = "done"
  /\ out' = [kind |-> "png", width |-> width, height |-> height, blits |-> PngBlits]
  /\ UNCHANGED <<pc, iter, packVars>>

\* Lines 124-138 and 199-214: the fields of one descriptor record.
TextItem(bitmap, point, trim, rot, asBool) ==
  << <<"n", bitmap.name>>, <<"x", point.x>>, <<"y", point.y>>,
     <<"w", bitmap.width>>, <<"h", bitmap.height>> >>
  \o (IF trim THEN << <<"fx", bitmap.frameX>>, <<"fy", bitmap.frameY>>,
                      <<"fw", bitmap.frameW>>, <<"fh", bitmap.frameH>> >> ELSE <<>>)
  \o (IF rot THEN << <<"r", IF asBool THEN point.rot
                            ELSE (IF point.rot THEN 1 ELSE 0)>> >> ELSE <<>>)

\* Lines 119-141.
SaveXml ==
  /\ pc = "done"
  /\ out' = [kind |-> "xml", name |-> opts.name,
             items |-> [k \in 1..Len(bitmaps) |->
                          TextItem(bitmaps[k], points[k], opts.trim, opts.rotate, FALSE)]]
  /\ UNCHANGED <<pc, iter, packVars>>

\* Lines 193-220.
SaveJson ==
  /\ pc = "done"
  /\ out' = [kind |-> "json", name |-> opts.name,
             items |-> [k \in 1..Len(bitmaps) |->
                          TextItem(bitmaps[k], points[k], opts.trim, opts.rotate, TRUE)]]
  /\ UNCHANGED <<pc, iter, packVars>>

\* Packer::Pack alone.
PackNext ==
  \/ PackDuplicate
  \/ PackPlace
  \/ PackExhausted
  \/ PackInputEmpty
  \/ ShrinkWidth
  \/ ShrinkWidthEnd
  \/ ShrinkHeight
  \/ ShrinkHeightEnd

PackSpec == PackInit /\ [][PackNext]_vars

\* Pack runs without interruption: a step that is possible is taken.
FairPackSpec == PackSpec /\ WF_vars(PackNext)

\* Pack, then any encoders in any order.
Next ==
  \/ PackDuplicate
  \/ PackPlace
  \/ PackExhausted
  \/ PackInputEmpty
  \/ ShrinkWidth
  \/ ShrinkWidthEnd
  \/ ShrinkHeight
  \/ ShrinkHeightEnd
  \/ SavePng
  \/ SaveXml
  \/ SaveJson
  \/ SaveBin

Spec == Init /\ [][Next]_vars

\* ======================================================================
\* Properties
\* ======================================================================
NonDup(i) == At(points, i).dupID = -1

Indices == 0..(Len(points) - 1)

NonDups == { i \in Indices : NonDup(i) }

ZeroSize(r) == r.width = 0 \/ r.height = 0

\* The rectangle of record i, its size taken from the bitmap as it is.
PlainRect(i) ==
  [x |-> At(points, i).x, y |-> At(points, i).y,
   width |-> At(bitmaps, i).width + pad, height |-> At(bitmaps, i).height + pad]

\* The rectangle of record i, width and height exchanged when it is rotated.
TurnedRect(i) ==
  IF At(points, i).rot
    THEN [x |-> At(points, i).x, y |-> At(points, i).y,
          width |-> At(bitmaps, i).height + pad, height |-> At(bitmaps, i).width + pad]
    ELSE PlainRect(i)

InCanvas(r) ==
  r.x >= 0 /\ r.y >= 0 /\ r.x + r.width <= width /\ r.y + r.height <= height

\* C1: Pack always reaches its return.
PackTerminates == <>(pc = "done")

\* C2 as stated: after Pack, the rectangles (x, y, width + pad, height + pad)
\* of the non-duplicate records lie in the final canvas and do not overlap.
PlacementCoverage ==
  pc = "done" =>
    \A i \in NonDups :
      /\ InCanvas(PlainRect(i))
      /\ \A j \in NonDups \ { i } : Disjoint(PlainRect(i), PlainRect(j))

\* C2 as amended: after Pack, the rectangles of the non-duplicate records, of
\* size (width + pad, height + pad) or, for a rotated record,
\* (height + pad, width + pad), lie in the final canvas and do not overlap.
PlacementCoverageTurned ==
  pc = "done" =>
    \A i \in NonDups :
      /\ InCanvas(TurnedRect(i))
      /\ \A j \in NonDups \ { i } : Disjoint(TurnedRect(i), TurnedRect(j))

\* C2's case: Pack has returned with a rotated and another placed bitmap on a
\* canvas it has shrunk.
PlacementCoverageWitness ==
  /\ pc = "done"
  /\ Cardinality(NonDups) >= 2
  /\ \E i \in NonDups : At(points, i).rot
  /\ (width < initWidth \/ height < initHeight)

RECURSIVE Halved(_, _)
Halved(v, k) == IF k = 0 THEN v ELSE Halved(v, k - 1) \div 2

RECURSIVE MaxOver(_, _)
MaxOver(rs, horizontal) ==
  IF rs = <<>> THEN 0
  ELSE Max(IF horizontal THEN Head(rs).x + Head(rs).width
                         ELSE Head(rs).y + Head(rs).height,
           MaxOver(Tail(rs), horizontal))

SmallestHalving(final, initial, bound) ==
  /\ \E k \in 0..initial : Halved(initial, k) = final
  /\ final >= bound
  /\ final \div 2 < bound
  /\ final <= initial
  /\ \A k \in 0..initial : Halved(initial, k) >= bound => Halved(initial, k) >= final

\* C3: when Pack returns, width and height are each the smallest repeated
\* halving of the initial value that is still >= the tight bound of the
\* placements; one more halving would fall below the bound.
ShrinkMinimality ==
  pc = "done" =>
    /\ ww = MaxOver(used, TRUE)
    /\ hh = MaxOver(used, FALSE)
    /\ SmallestHalving(width, initWidth, ww)
    /\ SmallestHalving(height, initHeight, hh)

\* C3's case: Pack has returned after halving both sizes at least twice.
ShrinkMinimalityWitness ==
  /\ pc = "done"
  /\ width = Halved(initWidth, 2)
  /\ height = Halved(initHeight, 2)
  /\ width < initWidth \div 2
  /\ height < initHeight \div 2

\* C4: when Pack returns, every record marked as a duplicate points to an
\* earlier non-duplicate record with equal pixels and the same x, y and rot,
\* and the bin was asked once per non-duplicate record (and once more for an
\* insert that failed).
DuplicateFidelity ==
  pc = "done" =>
    /\ \A i \in Indices :
         LET d == At(points, i).dupID
         IN d >= 0 =>
              /\ d < i
              /\ At(points, d).dupID = -1
              /\ Equals(At(bitmaps, i), At(bitmaps, d))
              /\ At(points, i).x = At(points, d).x
              /\ At(points, i).y = At(points, d).y
              /\ At(points, i).rot = At(points, d).rot
    /\ inserts = Cardinality(NonDups) + (IF ZeroSize(rect) THEN 1 ELSE 0)

\* C4's case: Pack has returned with a duplicate record and with a placed
\* bitmap of the same hash and other pixels.
DuplicateFidelityWitness ==
  /\ pc = "done"
  /\ \E i \in Indices \ NonDups : \E j \in NonDups :
       /\ At(bitmaps, i).hashValue = At(bitmaps, j).hashValue
       /\ ~Equals(At(bitmaps, i), At(bitmaps, j))

Pairs(bs, ps) == [k \in 1..Len(bs) |-> <<bs[k], ps[k]>>]

IsPermutationOf(a, b) ==
  /\ Len(a) = Len(b)
  /\ \E q \in OrdersOfLength[Len(a)] : \A i \in 0..(Len(a) - 1) : At(a, i) = At(b, At(q, i))

\* C5: bitmaps and points have the same length; after SaveBin the pairs
\* (bitmaps[i], points[i]) are a permutation of the pairs before the call and
\* bitmaps is in ascending order of name.
IndexAlignment ==
  /\ Len(bitmaps) = Len(points)
  /\ out.kind = "bin" =>
       /\ IsPermutationOf(Pairs(bitmaps, points), Pairs(out.before[1], out.before[2]))
       /\ \A i, j \in Indices :
            i < j => ~NameLess(At(bitmaps, j).name, At(bitmaps, i).name)

\* C5's case: SaveBin has sorted three records with a permutation that is one
\* cycle of length three.
IndexAlignmentWitness ==
  /\ out.kind = "bin"
  /\ Len(bitmaps) = 3
  /\ \A i \in 0..2 : At(out.perm, i) # i

\* C6: the input shrinks from its end into bitmaps and nothing is lost; once
\* the bin has answered with a zero-size rectangle the loop has stopped, the
\* failing bitmap is still in the input and the bin is not asked again.
ExhaustionStops ==
  /\ input0 = input \o Reverse(bitmaps)
  /\ Len(points) = Len(bitmaps)
  /\ ZeroSize(rect) =>
       /\ pc # "loop"
       /\ input # <<>>
       /\ inserts = Cardinality(NonDups) + 1

\* C6's case: Pack has returned after a failed insert, with bitmaps packed and
\* with a bitmap left in the input, before the failing one, that equals a
\* packed one.
ExhaustionStopsWitness ==
  /\ pc = "done"
  /\ ZeroSize(rect)
  /\ unique
  /\ bitmaps # <<>>
  /\ \E k \in 1..(Len(input) - 1) : \E m \in 1..Len(bitmaps) : Equals(input[k], bitmaps[m])

\* ------------------------------------------------------------ binary reader
\* The reader's state is <<position, value>>, or Short (position -1) when the
\* stream ends before the value does.
Short == << -1, <<>> >>

Failed(r) == r[1] < 0

ReadByte(bytes, pos) ==
  IF pos < 0 \/ pos >= Len(bytes) THEN Short ELSE <<pos + 1, At(bytes, pos)>>

ReadShort(bytes, pos) ==
  IF pos < 0 \/ pos + 2 > Len(bytes) THEN Short
  ELSE <<pos + 2, Int16(At(bytes, pos) + 256 * At(bytes, pos + 1))>>

RECURSIVE ReadString(_, _)
ReadString(bytes, pos) ==
  IF pos < 0 \/ pos >= Len(bytes) THEN Short
  ELSE IF At(bytes, pos) = 0 THEN <<pos + 1, <<>> >>
  ELSE LET r == ReadString(bytes, pos + 1)
       IN IF Failed(r) THEN Short ELSE <<r[1], <<At(bytes, pos)>> \o r[2]>>

ReadLengthPrefixedString(bytes, pos) ==
  LET n == ReadShort(bytes, pos)
  IN IF Failed(n) THEN Short
     ELSE IF n[2] < 0 \/ n[1] + n[2] > Len(bytes) THEN Short
     ELSE <<n[1] + n[2], SubSeq(bytes, n[1] + 1, n[1] + n[2])>>

ReadStringVersion(bytes, pos, version) ==
  IF version = -1 THEN ReadString(bytes, pos) ELSE ReadLengthPrefixedString(bytes, pos)

\* The reader's counterpart of alignStream.
SkipPadding(bytes, pos, alignment) ==
  IF pos < 0 \/ pos + (alignment - (pos % alignment)) > Len(bytes) THEN -1
  ELSE pos + (alignment - (pos % alignment))

\* n shorts from pos on: <<position, values>>.
RECURSIVE ReadShorts(_, _, _)
ReadShorts(bytes, pos, n) ==
  IF n = 0 THEN <<pos, <<>> >>
  ELSE LET v == ReadShort(bytes, pos)
       IN IF Failed(v) THEN Short
          ELSE LET r == ReadShorts(bytes, v[1], n - 1)
               IN IF Failed(r) THEN Short ELSE <<r[1], <<v[2]>> \o r[2]>>

\* One record in the layout SaveBin writes: <<position, record>>.
ReadItem(bytes, pos, o) ==
  LET first == IF o.version = -1 THEN ReadString(bytes, pos) ELSE <<pos, <<>> >>
  IN IF Failed(first) THEN Short
     ELSE
       LET core == ReadShorts(bytes, first[1], 4)
       IN IF Failed(core) THEN Short
          ELSE
            LET frame == IF o.trim THEN ReadShorts(bytes, core[1], 4) ELSE <<core[1], <<>> >>
            IN IF Failed(frame) THEN Short
               ELSE
                 LET r == IF o.rotate THEN ReadByte(bytes, frame[1]) ELSE <<frame[1], 0>>
                 IN IF Failed(r) THEN Short
                    ELSE
                      LET last == IF o.version >= 0
                                    THEN ReadLengthPrefixedString(bytes, r[1])
                                    ELSE <<r[1], first[2]>>
                      IN IF Failed(last) THEN Short
                         ELSE
                           LET end == IF o.version >= 0
                                        THEN SkipPadding(bytes, last[1], o.alignment)
                                        ELSE last[1]
                           IN IF end < 0 THEN Short
                              ELSE <<end, [name |-> last[2], core |-> core[2],
                                           frame |-> frame[2],
                                           rot |-> IF o.rotate THEN <<r[2]>> ELSE <<>>]>>

RECURSIVE ReadItems(_, _, _, _)
ReadItems(bytes, pos, n, o) ==
  IF n <= 0 THEN <<pos, <<>> >>
  ELSE LET it == ReadItem(bytes, pos, o)
       IN IF Failed(it) THEN Short
          ELSE LET r == ReadItems(bytes, it[1], n - 1, o)
               IN IF Failed(r) THEN Short ELSE <<r[1], <<it[2]>> \o r[2]>>

\* The reader: the atlas name, the count N, then N records.
ReadAtlas(bytes, o) ==
  LET nm == ReadStringVersion(bytes, o.start, o.version)
  IN IF Failed(nm) THEN [ok |-> FALSE]
     ELSE
       LET cnt == ReadShort(bytes, nm[1])
       IN IF Failed(cnt) THEN [ok |-> FALSE]
          ELSE
            LET body == IF o.version >= 0 THEN SkipPadding(bytes, cnt[1], o.alignment)
                        ELSE cnt[1]
            IN IF body < 0 THEN [ok |-> FALSE]
               ELSE LET its == ReadItems(bytes, body, cnt[2], o)
                    IN IF Failed(its) THEN [ok |-> FALSE]
                       ELSE [ok |-> TRUE, name |-> nm[2], items |-> its[2]]

\* What the reader has to recover from the packer's records, in order.
RECURSIVE Written(_, _)
Written(i, o) ==
  IF i >= Len(bitmaps) THEN <<>>
  ELSE LET b == At(bitmaps, i)
           q == At(points, i)
       IN (IF o.version >= 0 /\ 2 + Len(b.name) + 8 + (IF o.trim THEN 8 ELSE 0)
                                  + (IF o.rotate THEN 1 ELSE 0) > o.alignment
             THEN <<>>
             ELSE << [name |-> b.name, core |-> <<q.x, q.y, b.width, b.height>>,
                      frame |-> IF o.trim THEN <<b.frameX, b.frameY, b.frameW, b.frameH>>
                                ELSE <<>>,
                      rot |-> IF o.rotate THEN << IF q.rot THEN 1 ELSE 0 >> ELSE <<>>] >>)
          \o Written(i + 1, o)

\* C7: reading back what SaveBin wrote (name, count N, N records) gives the
\* atlas name and exactly the records that were not skipped, in name order.
BinaryRoundTrip ==
  out.kind = "bin" =>
    ReadAtlas(out.bytes, opts) = [ok |-> TRUE, name |-> opts.name, items |-> Written(0, opts)]

\* C8: with unique set, dupLookup[h] is the first non-duplicate record with
\* hash h, and no bitmap equal to a placed one is placed again.
FirstWriterWins ==
  unique =>
    /\ \A h \in DOMAIN dupLookup :
         /\ dupLookup[h] \in NonDups
         /\ At(bitmaps, dupLookup[h]).hashValue = h
         /\ \A i \in NonDups : At(bitmaps, i).hashValue = h => dupLookup[h] <= i
    /\ \A i, j \in NonDups : i # j => ~Equals(At(bitmaps, i), At(bitmaps, j))

\* The stream after the header and the first k records.
StreamAfter(k) ==
  WriteItems(WriteHeader(Zeros(opts.start), opts.name, Len(bitmaps), opts.version,
                         opts.alignment),
             SubSeq(bitmaps, 1, k), SubSeq(points, 1, k), 0, opts.trim, opts.rotate,
             opts.version, opts.alignment)

\* C9: with version >= 0 the stream is aligned after the header and after
\* every record, a record that is not skipped takes exactly alignment bytes
\* with its padding, and a skipped record takes none.
AlignedRecords ==
  (out.kind = "bin" /\ opts.version >= 0) =>
    /\ StreamAfter(Len(bitmaps)) = out.bytes
    /\ Len(StreamAfter(0)) % opts.alignment = 0
    /\ \A k \in 1..Len(bitmaps) :
         LET size == Len(StreamAfter(k)) - Len(StreamAfter(k - 1))
         IN IF 2 + Len(bitmaps[k].name) + 8 + (IF opts.trim THEN 8 ELSE 0)
                 + (IF opts.rotate THEN 1 ELSE 0) <= opts.alignment
              THEN size = opts.alignment /\ Len(StreamAfter(k)) % opts.alignment = 0
              ELSE size = 0

\* C10: after Pack and any encoder calls, every duplicate record's dupID is
\* the index of a non-duplicate record with equal pixels and the same x, y
\* and rot.
DuplicateReferenceValid ==
  pc = "done" =>
    \A i \in Indices :
      LET d == At(points, i).dupID
      IN d >= 0 =>
           /\ d \in Indices
           /\ At(points, d).dupID = -1
           /\ Equals(At(bitmaps, i), At(bitmaps, d))
           /\ At(points, i).x = At(points, d).x
           /\ At(points, i).y = At(points, d).y
           /\ At(points, i).rot = At(points, d).rot

====
